---- MODULE Spec2Model ----
(***************************************************************************)
(* Behaviour analysis and recommendation core of the product-display app.  *)
(*   src/app/_init_.py     BehaviorAnalyzer, RealTimeRecommender           *)
(*   src/app/routes.py     track_event, get_product (event ingestion)      *)
(*                         create_product, update_product_status          *)
(*   src/models/_init_.py  the tables                                      *)
(*   src/app/run.py        seed_data (the seeded catalog)                  *)
(*                                                                         *)
(* Representation.  An engagement score is kept in hundredths (50.0 is     *)
(* 5000), which is exact: round(score * 100, 2) has two decimals.  A NULL  *)
(* product_id is 0 (Python's `if e.product_id` rejects None and 0 alike,   *)
(* and ids start at 1).  A dict is a record; the empty dict is a record    *)
(* without fields of interest (EmptyFeatures).                             *)
(***************************************************************************)
EXTENDS Integers, Sequences, FiniteSets, TLC

(***************************************************************************)
(* Bounds of the model                                                     *)
(***************************************************************************)
\* products created by seed_data (the code seeds 20)
NumProducts == 4
\* events stored or in flight under Spec
MaxEvents == 5
\* events stored or in flight under SpecSerial
MaxSerial == 5
\* events stored or in flight under SpecAnalysis and SpecAnalysisFault
MaxAnalysed == 2
\* product views stored or in flight, over all sessions, under SpecRec
MaxViews == 3
\* how far above its ceiling a sampled feature value lies under SpecScore
Overshoot == 1
\* largest `limit` a recommendation request passes
MaxLimit == 2
\* largest reading of the wall clock (datetime.utcnow())
MaxClock == 1
\* events stored or in flight under SpecRepeat
MaxRepeated == 2
\* events stored or in flight under SpecRace
MaxRaced == 10
\* events stored or in flight under SpecCommit: two requests at the tenth
\* event
MaxCommitted == 11
\* events stored or in flight under SpecOverwrite: two requests at the tenth
\* event
MaxOverwritten == 11
\* product views stored or in flight under SpecFault
MaxFaultViews == 1
\* product views stored or in flight under SpecCatalog
MaxCatalogViews == 1
\* products created through create_product
MaxCreated == 2

(***************************************************************************)
(* Program constants                                                       *)
(***************************************************************************)
NoProduct == 0
AnalysisEvery == 5
InterestLimit == 10
SimilarEventLimit == 100
DefaultScore == 0
NeutralScore == 5000
HighEngagement == 8000
ModerateEngagement == 5000
VideoPlaysOver == 2
UniqueProductsOver == 5
BounceUnder == 30
\* least common multiple of the ceilings of max_values: the exact
\* denominator of the weighted sum
CommonCeiling == 600

Sessions == {"s1", "s2"}
Products == 1..NumProducts

ScoredFeatures ==
    {"session_duration", "total_events", "product_views",
     "image_clicks", "video_plays", "unique_products"}

\* self.engagement_weights, in percent (0.2 is 20)
engagement_weights ==
    [session_duration |-> 20, total_events |-> 15, product_views |-> 20,
     image_clicks |-> 15, video_plays |-> 20, unique_products |-> 10]

\* max_values of _calculate_engagement_score
max_values ==
    [session_duration |-> 300, total_events |-> 20, product_views |-> 10,
     image_clicks |-> 15, video_plays |-> 5, unique_products |-> 8]

(***************************************************************************)
(* Values                                                                  *)
(***************************************************************************)
\* UserSession.duration is a nullable integer column
NullDuration == [isNull |-> TRUE, val |-> 0]
IntDuration(d) == [isNull |-> FALSE, val |-> d]

\* `session.duration or 0`
DurationOrZero(duration) == IF duration.isNull THEN 0 ELSE duration.val

\* the {} that extract_session_features returns on failure
EmptyFeatures == [empty |-> TRUE]

\* Python's round(): to the nearest integer, a tie to the even one
RoundHalfEven(n, d) ==
    LET q == n \div d
        r == n - q * d
    IN  IF 2 * r < d THEN q
        ELSE IF 2 * r > d THEN q + 1
        ELSE IF q % 2 = 0 THEN q ELSE q + 1

RECURSIVE SumOver(_, _)
SumOver(S, f) ==
    IF S = {} THEN 0
    ELSE LET k == CHOOSE x \in S : TRUE
         IN  f[k] + SumOver(S \ {k}, f)

RECURSIVE DropNull(_)
\* [x for x in ids if x]
DropNull(ids) ==
    IF ids = << >> THEN << >>
    ELSE IF Head(ids) # NoProduct
         THEN << Head(ids) >> \o DropNull(Tail(ids))
         ELSE DropNull(Tail(ids))

\* seq[:n]
Prefix(seq, n) == SubSeq(seq, 1, IF Len(seq) < n THEN Len(seq) ELSE n)

CountType(events, t) == Cardinality({ i \in 1..Len(events) : events[i].event_type = t })

(***************************************************************************)
(* BehaviorAnalyzer                                                        *)
(***************************************************************************)
\* extract_session_features dividing without its `if events else 0`: with
\* no event the division raises ZeroDivisionError, and {} is returned
extract_session_features_unguarded(session, fail) ==
    LET events == session.events
        n == Len(events)
    IN  IF fail THEN EmptyFeatures
        ELSE IF n = 0 \/ session.duration.isNull THEN EmptyFeatures
        ELSE [session_duration |-> DurationOrZero(session.duration),
              total_events |-> n,
              product_views |-> CountType(events, "product_view"),
              image_clicks |-> CountType(events, "image_click"),
              video_plays |-> CountType(events, "video_play"),
              unique_products |->
                  Cardinality({ events[i].product_id : i \in 1..n } \ {NoProduct}),
              avg_time_per_event |-> [num |-> session.duration.val, den |-> n]]

\* extract_session_features(session): `fail` is session.events.all() raising.
\* With a NULL duration and at least one event, session.duration / len(events)
\* raises TypeError; both land in the except branch and give {}.
extract_session_features(session, fail) ==
    LET events == session.events
        n == Len(events)
    IN  IF fail THEN EmptyFeatures
        ELSE IF n > 0 /\ session.duration.isNull THEN EmptyFeatures
        ELSE [session_duration |-> DurationOrZero(session.duration),
              total_events |-> n,
              product_views |-> CountType(events, "product_view"),
              image_clicks |-> CountType(events, "image_click"),
              video_plays |-> CountType(events, "video_play"),
              unique_products |->
                  Cardinality({ events[i].product_id : i \in 1..n } \ {NoProduct}),
              avg_time_per_event |->
                  IF n > 0 THEN [num |-> session.duration.val, den |-> n]
                  ELSE [num |-> 0, den |-> 1]]

\* Normalized without its min(): the raw ratio
Normalized_unclamped(value, max_val) == value

\* min(features[feature] / max_val, 1.0), as a numerator over max_val:
\* there is no lower clamp
Normalized(value, max_val) == IF value > max_val THEN max_val ELSE value

\* _calculate_engagement_score(features), in hundredths.  A feature the
\* dict lacks raises KeyError, caught: 50.0.
_calculate_engagement_score(features) ==
    IF ~(ScoredFeatures \subseteq DOMAIN features) THEN NeutralScore
    ELSE LET term == [k \in ScoredFeatures |->
                        100 * engagement_weights[k]
                            * Normalized(features[k], max_values[k])
                            * (CommonCeiling \div max_values[k])]
         IN  RoundHalfEven(SumOver(ScoredFeatures, term), CommonCeiling)

\* features.get(key, 0)
FeatureGet(features, key) == IF key \in DOMAIN features THEN features[key] ELSE 0

\* _classify_behavior_pattern with `>` for the `>=` of its first test
_classify_behavior_pattern_strict(features, engagement_score) ==
    IF engagement_score > HighEngagement THEN "high_engagement"
    ELSE IF engagement_score >= ModerateEngagement
    THEN IF FeatureGet(features, "video_plays") > VideoPlaysOver
         THEN "video_interested"
         ELSE IF FeatureGet(features, "unique_products") > UniqueProductsOver
         THEN "browsing_intensive"
         ELSE "moderate_engagement"
    ELSE IF FeatureGet(features, "session_duration") < BounceUnder
         THEN "bounce"
         ELSE "low_engagement"

\* _classify_behavior_pattern(features, engagement_score)
_classify_behavior_pattern(features, engagement_score) ==
    IF engagement_score >= HighEngagement THEN "high_engagement"
    ELSE IF engagement_score >= ModerateEngagement
    THEN IF FeatureGet(features, "video_plays") > VideoPlaysOver
         THEN "video_interested"
         ELSE IF FeatureGet(features, "unique_products") > UniqueProductsOver
         THEN "browsing_intensive"
         ELSE "moderate_engagement"
    ELSE IF FeatureGet(features, "session_duration") < BounceUnder
         THEN "bounce"
         ELSE "low_engagement"

\* [e.product_id for e in product_views if e.product_id], product_views
\* being the session's product_view events
ViewedIds(events) ==
    LET ids == [i \in 1..Len(events) |->
                  IF events[i].event_type = "product_view"
                  THEN events[i].product_id ELSE NoProduct]
    IN  DropNull(ids)

\* _extract_interests(session): `fail` is the filter_by query raising,
\* `now` the reading of datetime.utcnow()
_extract_interests(session, fail, now) ==
    IF fail THEN [viewed_products |-> << >>, total_views |-> 0]
    ELSE LET product_ids == ViewedIds(session.events)
         IN  [viewed_products |-> Prefix(product_ids, InterestLimit),
              total_views |-> Len(product_ids),
              last_updated |-> now]

\* _get_default_analysis()
_get_default_analysis ==
    [behavior_pattern |-> "unknown",
     engagement_score |-> DefaultScore,
     interest_categories |-> [viewed_products |-> << >>, total_views |-> 0]]

\* analyze_behavior_pattern without its `if not features` return: scoring
\* the empty vector fails (50.0) and the rules classify it
analyze_behavior_pattern_unchecked(session, failEvents, failInterests, now) ==
    LET features == extract_session_features(session, failEvents)
        engagement_score == _calculate_engagement_score(features)
    IN  [behavior_pattern |->
             _classify_behavior_pattern(features, engagement_score),
         engagement_score |-> engagement_score,
         interest_categories |->
             _extract_interests(session, failInterests, now),
         features |-> features]

\* analyze_behavior_pattern taking the time elapsed so far for the duration
\* of a session that has stored none
analyze_behavior_pattern_elapsed(session, failEvents, failInterests, now) ==
    LET live == [duration |-> IF DurationOrZero(session.duration) = 0
                              THEN IntDuration(now) ELSE session.duration,
                 events |-> session.events]
        features == extract_session_features(live, failEvents)
    IN  IF features = EmptyFeatures THEN _get_default_analysis
        ELSE LET engagement_score == _calculate_engagement_score(features)
             IN  [behavior_pattern |->
                      _classify_behavior_pattern(features, engagement_score),
                  engagement_score |-> engagement_score,
                  interest_categories |->
                      _extract_interests(session, failInterests, now),
                  features |-> features]

\* analyze_behavior_pattern(session)
analyze_behavior_pattern(session, failEvents, failInterests, now) ==
    LET features == extract_session_features(session, failEvents)
    IN  IF features = EmptyFeatures THEN _get_default_analysis
        ELSE LET engagement_score == _calculate_engagement_score(features)
             IN  [behavior_pattern |->
                      _classify_behavior_pattern(features, engagement_score),
                  engagement_score |-> engagement_score,
                  interest_categories |->
                      _extract_interests(session, failInterests, now),
                  features |-> features]

(***************************************************************************)
(* The store                                                               *)
(***************************************************************************)
VARIABLES
    status,       \* products.status, by product id (the rows of `products`)
    view_count,   \* product_analytics.view_count, by product_id
    events,       \* user_events, in id order
    duration,     \* user_sessions.duration, by session id
    profiles,     \* the rows of user_behavior_profiles
    clock,        \* the wall clock datetime.utcnow() reads
    analysis,     \* the last call of analyze_behavior_pattern and its result
    recs,         \* the last call of get_personalized_recommendations
    probe,        \* a feature vector under scoring and classification
    txn,          \* the request each worker is handling
    runs          \* by session, the event counts at which track_event has
                  \* called analyze_behavior_pattern, in order

vars == << status, view_count, events, duration, profiles, clock,
           analysis, recs, probe, txn, runs >>

\* session.events: the session's rows of user_events
SessionEvents(table, session_id) ==
    SelectSeq(table, LAMBDA e : e.session_id = session_id)

\* the UserSession object a handler holds (g.session)
SessionOf(table, durations, session_id) ==
    [duration |-> durations[session_id],
     events |-> SessionEvents(table, session_id)]

(***************************************************************************)
(* RealTimeRecommender                                                     *)
(***************************************************************************)
\* what a call gives its caller: a value, or an exception
Return(v) == [raised |-> FALSE, value |-> v]
Raise == [raised |-> TRUE]

\* _get_viewed_products(session): `fail` is the query raising
_get_viewed_products(session_id, fail) ==
    IF fail THEN Raise
    ELSE Return({ events[i].product_id : i \in
                    { j \in 1..Len(events) :
                        /\ events[j].session_id = session_id
                        /\ events[j].event_type = "product_view"
                        /\ events[j].product_id # NoProduct } })

RECURSIVE Ranked(_, _)
\* every order of S by descending key (rows of equal key come in any order)
Ranked(S, key) ==
    IF S = {} THEN { << >> }
    ELSE UNION { { << m >> \o r : r \in Ranked(S \ {m}, key) } :
                 m \in { x \in S : \A y \in S : key[x] >= key[y] } }

\* src/app/_init_.py never binds the name `db` (it imports numpy, json,
\* datetime and logging; the function imports UserEvent and Product)
DbIsBound == FALSE

\* the two queries of _get_similar_products, were they to run
SimilarQuery(viewed_products, excluded_ids, limit) ==
    LET hits == SelectSeq(events, LAMBDA e :
                    /\ e.event_type = "product_view"
                    /\ e.product_id \in viewed_products)
        similar_sessions == Prefix(hits, SimilarEventLimit)
        session_ids == { similar_sessions[i].session_id :
                            i \in 1..Len(similar_sessions) }
        rows == { i \in 1..Len(events) :
                    /\ events[i].event_type = "product_view"
                    /\ events[i].session_id \in session_ids
                    /\ events[i].product_id \notin excluded_ids
                    /\ events[i].product_id # NoProduct }
        groups == { events[i].product_id : i \in rows }
        count == [p \in groups |->
                    Cardinality({ i \in rows : events[i].product_id = p })]
    IN  { Prefix(order, limit) : order \in Ranked(groups, count) }

\* _get_similar_products(viewed_products, excluded_ids, limit): evaluating
\* db.func.count raises NameError, which the except branch turns into []
_get_similar_products(viewed_products, excluded_ids, limit) ==
    IF DbIsBound
    THEN { Return(r) : r \in SimilarQuery(viewed_products, excluded_ids, limit) }
    ELSE { Return(<< >>) }

\* the rows of ProductAnalytics.query.join(Product) with a published product
PublishedAnalytics == { p \in DOMAIN view_count :
                          p \in DOMAIN status /\ status[p] = "published" }

\* _get_popular_recommendations without its .limit(limit)
_get_popular_recommendations_unlimited(limit, fail) ==
    IF fail THEN { Return(<< >>) }
    ELSE { Return(order) : order \in Ranked(PublishedAnalytics, view_count) }

\* _get_popular_recommendations without its try/except
_get_popular_recommendations_uncaught(limit, fail) ==
    IF fail THEN { Raise }
    ELSE { Return(Prefix(order, limit)) :
             order \in Ranked(PublishedAnalytics, view_count) }

\* _get_popular_recommendations without its Product.status filter
_get_popular_recommendations_any_status(limit, fail) ==
    IF fail THEN { Return(<< >>) }
    ELSE { Return(Prefix(order, limit)) :
             order \in Ranked(DOMAIN view_count, view_count) }

\* _get_popular_recommendations(limit): `fail` is the query raising
_get_popular_recommendations(limit, fail) ==
    IF fail THEN { Return(<< >>) }
    ELSE { Return(Prefix(order, limit)) :
             order \in Ranked(PublishedAnalytics, view_count) }

\* get_personalized_recommendations returning what Tier 1 gave, empty or
\* not (no `else self._get_popular_recommendations(limit)` at line 144)
get_personalized_recommendations_tier_one_only(session_id, current_product_id, limit, failViewed, failPopular) ==
    LET popular == _get_popular_recommendations(limit, failPopular)
        viewed == _get_viewed_products(session_id, failViewed)
        tried ==
            IF viewed.raised THEN { Raise }
            ELSE IF viewed.value = {} THEN popular
            ELSE _get_similar_products(
                     viewed.value,
                     viewed.value \cup
                         (IF current_product_id # NoProduct
                          THEN {current_product_id} ELSE {}),
                     limit)
    IN  UNION { IF r.raised THEN popular ELSE {r} : r \in tried }

\* get_personalized_recommendations(session, current_product_id, limit)
get_personalized_recommendations(session_id, current_product_id, limit, failViewed, failPopular) ==
    LET popular == _get_popular_recommendations(limit, failPopular)
        viewed == _get_viewed_products(session_id, failViewed)
        tried ==
            IF viewed.raised THEN { Raise }
            ELSE IF viewed.value = {} THEN popular
            ELSE LET excluded_ids ==
                         viewed.value \cup
                         (IF current_product_id # NoProduct
                          THEN {current_product_id} ELSE {})
                     recommendations ==
                         _get_similar_products(viewed.value, excluded_ids, limit)
                 IN  UNION { IF r.value # << >> THEN {r} ELSE popular :
                             r \in recommendations }
    IN  \* except Exception: return self._get_popular_recommendations(limit)
        UNION { IF r.raised THEN popular ELSE {r} : r \in tried }

(***************************************************************************)
(* Initial state: an initialised database (init-db), empty or seeded       *)
(* (seed-data)                                                             *)
(***************************************************************************)
\* seed_data: 'published' if i % 2 == 0 else 'draft'
SeedStatus(i) == IF i % 2 = 0 THEN "published" ELSE "draft"
\* seed_data: view_count = i * 10, i being the index of enumerate(products),
\* which is one less than the product's id
SeedViewCount(i) == (i - 1) * 10

NoAnalysis == [called |-> FALSE]
NoRecs == [called |-> FALSE]
NoProbe == [stage |-> "none"]

\* the request-handling workers (threads or processes of the web server)
Workers == {"w1", "w2"}
\* a worker between requests
Idle == [pc |-> "idle"]

StoreInit ==
    /\ \E seeded \in BOOLEAN :
         LET ids == IF seeded THEN Products ELSE {}
         IN  /\ status = [p \in ids |-> SeedStatus(p)]
             /\ view_count = [p \in ids |-> SeedViewCount(p)]
    /\ events = << >>
    /\ duration = [s \in Sessions |-> IntDuration(0)]
    /\ profiles = {}
    /\ clock = 0
    /\ analysis = NoAnalysis
    /\ recs = NoRecs
    /\ txn = [w \in Workers |-> Idle]
    /\ runs = [s \in Sessions |-> << >>]

Init == StoreInit /\ probe = NoProbe

(***************************************************************************)
(* Event ingestion (routes.py)                                             *)
(***************************************************************************)
\* event_type of a request body that gives none
NullType == "NULL"

\* the primary key an inserted profile row gets (ids left unused by
\* rolled-back inserts are not modelled)
NextProfileId(rows) ==
    IF rows = {} THEN 1
    ELSE (CHOOSE i \in { r.id : r \in rows } :
              \A r \in rows : r.id <= i) + 1

\* the row of id `id` with the four fields track_event assigns
ProfileRow(id, session_id, analysis_result, now) ==
    [id |-> id,
     session_id |-> session_id,
     interest_categories |-> analysis_result.interest_categories,
     engagement_score |-> analysis_result.engagement_score,
     behavior_pattern |-> analysis_result.behavior_pattern,
     last_updated |-> now]

(***************************************************************************)
(* A request as the database sees it (MySQL, REPEATABLE READ, the default  *)
(* of src/config/config.py:13-14).  The transaction of a request opens at  *)
(* the SELECT of track_session (routes.py:26), and every plain SELECT of   *)
(* the request reads the tables as they were committed at that moment,     *)
(* plus the rows the request itself has flushed: whole requests of other   *)
(* workers may commit between that SELECT and the handler's flush without  *)
(* the handler seeing them.  A primary key is given at the flush (the      *)
(* autoflush before the handler's first query after db.session.add), so    *)
(* rows are ordered by the order of the flushes, not of the commits.  What *)
(* a flush checks (foreign key, unique index) it checks against the rows   *)
(* committed at the time of the statement.  The UPDATE of a loaded row     *)
(* sets the columns whose assigned value differs from the value the        *)
(* handler loaded and no other: a column assigned the loaded value keeps   *)
(* whatever is committed.  Row locks are not modelled.  The sessions of    *)
(* Sessions have their row in user_sessions (each has made a request       *)
(* before), so track_session does not insert and commit (lines 27-36).     *)
(***************************************************************************)
\* worker w has flushed an event that is not committed yet
Recording(w) == txn[w].pc \in {"flushed", "viewing"}

\* worker w is inside a request, its transaction open
InFlight(w) == txn[w].pc \in {"tracked", "flushed", "viewing", "creating", "updating"}

\* worker w is inside a request that may yet store an event
Pending(w) == txn[w].pc \in {"tracked", "flushed", "viewing"}

\* the greatest of a set of ids, 0 for none
MaxId(ids) == IF ids = {} THEN 0 ELSE CHOOSE i \in ids : \A j \in ids : j <= i

\* UserEvent.id of the event a flush inserts: above every id stored or
\* flushed (ids left unused by rolled-back inserts are not modelled)
NextEventId ==
    MaxId({ events[i].id : i \in 1..Len(events) }
          \cup { txn[w].event.id : w \in { v \in Workers : Recording(v) } }) + 1

\* user_events with row e stored: the table is read in the order of its ids
InsertById(table, e) ==
    SelectSeq(table, LAMBDA r : r.id < e.id)
        \o << e >> \o SelectSeq(table, LAMBDA r : r.id > e.id)

\* the committed tables a request writes
Store == [events |-> events, duration |-> duration, profiles |-> profiles]

\* the committed tables as a transaction opening now will read them
Snapshot ==
    [events |-> events, duration |-> duration, profiles |-> profiles,
     status |-> status, view_count |-> view_count]

\* the unique index on user_behavior_profiles.session_id refuses the insert
\* of a second row of the session (IntegrityError)
UniqueViolation(rows, session_id) ==
    \E r \in rows : r.session_id = session_id

\* a rollback that leaves the flushed event in the table
rollback_event_kept(t) == [Store EXCEPT !.events = Append(events, t.event)]

\* db.session.rollback(): nothing the request flushed is stored
rollback(t) == Store

\* the column of a loaded row after the UPDATE: the assigned value when it
\* differs from the loaded one, otherwise the stored value untouched
Assigned(loaded, stored, value) == IF value # loaded THEN value ELSE stored

\* the stored row r after the UPDATE of request t, which loaded it as f
UpdatedProfile(r, f, t) ==
    [id |-> r.id,
     session_id |-> r.session_id,
     interest_categories |->
         Assigned(f.interest_categories, r.interest_categories,
                  t.analysis_result.interest_categories),
     engagement_score |->
         Assigned(f.engagement_score, r.engagement_score,
                  t.analysis_result.engagement_score),
     behavior_pattern |->
         Assigned(f.behavior_pattern, r.behavior_pattern,
                  t.analysis_result.behavior_pattern),
     last_updated |-> Assigned(f.last_updated, r.last_updated, t.now)]

\* db.session.commit() of request t: the event, the duration a session_end
\* assigned, and the profile the request added, or loaded and assigned
commit(t) ==
    [events |-> InsertById(events, t.event),
     duration |-> IF t.event.event_type = "session_end"
                  THEN [duration EXCEPT ![t.session_id] =
                            Assigned(t.loaded_duration, @, t.total_time)]
                  ELSE duration,
     profiles |->
         IF ~t.analysed THEN profiles
         ELSE IF t.found = {}
         THEN profiles \cup { ProfileRow(NextProfileId(profiles), t.session_id,
                                         t.analysis_result, t.now) }
         ELSE { r \in profiles : r.id \notin { f.id : f \in t.found } }
                  \cup { UpdatedProfile(r, f, t) :
                           << r, f >> \in { p \in profiles \X t.found :
                                              p[1].id = p[2].id } }]

\* track_session (before_request) of a request of session s: the SELECT of
\* line 26 opens the worker's transaction and fixes what its later SELECTs
\* read; g.session is the session's row as read here.  `seen` counts the
\* events committed at this moment.
track_session(w, s, cap) ==
    /\ ~InFlight(w)
    /\ Len(events) + Cardinality({ v \in Workers : Pending(v) }) < cap
    /\ txn' = [txn EXCEPT ![w] =
                  [pc |-> "tracked", session_id |-> s,
                   snapshot |-> Snapshot, seen |-> Len(events)]]
    /\ recs' = NoRecs
    /\ UNCHANGED << status, view_count, events, duration, profiles, clock,
                    analysis, probe, runs >>

\* event_count with the request's own event left out of the count (no
\* autoflush before the query)
CountEvents_unflushed(table, session_id) == Len(SessionEvents(table, session_id))

\* UserEvent.query.filter_by(session_id=g.session_id).count() over `table`,
\* the user_events of the request's snapshot: the session's events in it
\* and, flushed by the query, the request's own
CountEvents(table, session_id) == Len(SessionEvents(table, session_id)) + 1

\* POST /api/events from its handler's first line up to its commit (lines
\* 159-190), in the transaction track_session opened.  The autoflush of
\* line 178 inserts the event, which gets its id then; a request that the
\* flush refuses (no event_type: NOT NULL; a product that does not exist:
\* foreign key) is rolled back here.  The count, the session's events the
\* analysis reads, g.session.duration and the profile looked up are those
\* of the snapshot.
TrackEventBegin(w, req) ==
    /\ txn[w].pc = "tracked"
    /\ LET s == txn[w].session_id
           snapshot == txn[w].snapshot
           event == [id |-> NextEventId, session_id |-> s,
                     event_type |-> req.event_type,
                     product_id |-> req.product_id]
           valid == /\ req.event_type # NullType
                    /\ req.product_id = NoProduct \/ req.product_id \in DOMAIN status
           session == [duration |-> IF req.event_type = "session_end"
                                    THEN req.total_time
                                    ELSE snapshot.duration[s],
                       events |-> Append(SessionEvents(snapshot.events, s),
                                         event)]
           event_count == CountEvents(snapshot.events, s)
           analysed == event_count % AnalysisEvery = 0
           t == [pc |-> "flushed", session_id |-> s, event |-> event,
                 loaded_duration |-> snapshot.duration[s],
                 total_time |-> req.total_time,
                 seen |-> txn[w].seen,
                 event_count |-> event_count,
                 analysed |-> analysed,
                 analysis_result |->
                     IF analysed
                     THEN analyze_behavior_pattern(session, FALSE, FALSE, clock)
                     ELSE _get_default_analysis,
                 found |-> IF analysed
                           THEN { r \in snapshot.profiles : r.session_id = s }
                           ELSE {},
                 now |-> clock]
       IN  IF valid
           THEN /\ txn' = [txn EXCEPT ![w] = t]
                /\ runs' = IF analysed
                           THEN [runs EXCEPT ![s] = Append(@, event_count)]
                           ELSE runs
                /\ UNCHANGED << events, duration, profiles >>
           ELSE /\ txn' = [txn EXCEPT ![w] =
                              [pc |-> "rolled_back", cause |-> "flush"]]
                /\ events' = rollback(t).events
                /\ duration' = rollback(t).duration
                /\ profiles' = rollback(t).profiles
                /\ UNCHANGED runs
    /\ recs' = NoRecs
    /\ UNCHANGED << status, view_count, clock, analysis, probe >>

\* db.session.commit() of track_event (line 192), and the rollback of lines
\* 195-196 when the commit's flush fails
TrackEventCommit(w) ==
    /\ txn[w].pc = "flushed"
    /\ LET t == txn[w]
           refused == /\ t.analysed
                      /\ t.found = {}
                      /\ UniqueViolation(profiles, t.session_id)
           stored == IF refused THEN rollback(t) ELSE commit(t)
       IN  /\ events' = stored.events
           /\ duration' = stored.duration
           /\ profiles' = stored.profiles
           /\ txn' = [txn EXCEPT ![w] =
                         IF refused
                         THEN [pc |-> "rolled_back", cause |-> "unique"]
                         ELSE [pc |-> "committed",
                               session_id |-> t.session_id,
                               event_count |-> t.event_count,
                               analysed |-> t.analysed,
                               overwrote |-> t.analysed /\ t.found # {},
                               stored |-> Len(SessionEvents(stored.events,
                                                            t.session_id))]]
    /\ analysis' = NoAnalysis
    /\ recs' = NoRecs
    /\ UNCHANGED << status, view_count, clock, probe, runs >>

\* GET /api/products/<id> from its handler's first line up to its commit
\* (lines 130-148), in the transaction track_session opened.  get_or_404
\* reads the snapshot: it raises for a product that was not committed when
\* the transaction opened, and nothing is recorded.  The autoflush of line
\* 143 inserts the event, which gets its id then; the analytics row is read
\* from the snapshot.  Every product has its analytics row (seed_data and
\* create_product add it), so `if not analytics` is not taken.
GetProductBegin(w, product_id) ==
    /\ txn[w].pc = "tracked"
    /\ txn' = [txn EXCEPT ![w] =
                  IF product_id \in DOMAIN txn[w].snapshot.status
                  THEN [pc |-> "viewing", session_id |-> txn[w].session_id,
                        event |-> [id |-> NextEventId,
                                   session_id |-> txn[w].session_id,
                                   event_type |-> "product_view",
                                   product_id |-> product_id],
                        seen |-> txn[w].seen,
                        view_count |-> txn[w].snapshot.view_count[product_id]]
                  ELSE [pc |-> "not_found"]]
    /\ recs' = NoRecs
    /\ UNCHANGED << status, view_count, events, duration, profiles, clock,
                    analysis, probe, runs >>

\* analytics.view_count += 1 and db.session.commit() of get_product (lines
\* 147-150): the count the handler read, plus one, is written back with the
\* event
GetProductCommit(w) ==
    /\ txn[w].pc = "viewing"
    /\ events' = InsertById(events, txn[w].event)
    /\ view_count' = [view_count EXCEPT
                          ![txn[w].event.product_id] = txn[w].view_count + 1]
    /\ txn' = [txn EXCEPT ![w] = [pc |-> "viewed"]]
    /\ analysis' = NoAnalysis
    /\ recs' = NoRecs
    /\ UNCHANGED << status, duration, profiles, clock, probe, runs >>

\* the statuses update_product_status accepts
StatusValues == {"published", "unpublished", "draft"}

\* PUT /api/admin/products/<id>/status up to its commit (track_session,
\* then lines 342-349): get_or_404 raises for a product that is not
\* committed, a status outside the list is answered 400; otherwise the
\* handler assigns the status to the product it loaded.  The product row is
\* all the request reads, so the request is taken to open its transaction
\* and read the row in one step.
UpdateProductStatusBegin(w, product_id, new_status) ==
    /\ ~InFlight(w)
    /\ txn' = [txn EXCEPT ![w] =
                  IF product_id \notin DOMAIN status
                  THEN [pc |-> "not_found"]
                  ELSE IF new_status \notin StatusValues
                  THEN [pc |-> "bad_request"]
                  ELSE [pc |-> "updating", product_id |-> product_id,
                        loaded_status |-> status[product_id],
                        status |-> new_status]]
    /\ analysis' = NoAnalysis
    /\ recs' = NoRecs
    /\ UNCHANGED << status, view_count, events, duration, profiles, clock,
                    probe, runs >>

\* db.session.commit() of update_product_status (line 351)
UpdateProductStatusCommit(w) ==
    /\ txn[w].pc = "updating"
    /\ status' = [status EXCEPT ![txn[w].product_id] =
                     Assigned(txn[w].loaded_status, @, txn[w].status)]
    /\ txn' = [txn EXCEPT ![w] = [pc |-> "updated"]]
    /\ analysis' = NoAnalysis
    /\ recs' = NoRecs
    /\ UNCHANGED << view_count, events, duration, profiles, clock, probe,
                    runs >>

\* Product.id of the product a flush inserts: above every id stored or
\* flushed
NextProductId(table) ==
    MaxId(DOMAIN table
          \cup { txn[w].product_id :
                   w \in { v \in Workers : txn[v].pc = "creating" } }) + 1

\* the ids of the products that get created: the first MaxCreated of an
\* empty catalog, or of a seeded one
CanCreate(id) ==
    \/ id <= MaxCreated
    \/ NumProducts < id /\ id <= NumProducts + MaxCreated

\* POST /api/admin/products without files, up to its commit (track_session,
\* then lines 263-328): 400 without a title; otherwise the flush of line
\* 276 gives the product its id.  The handler reads no table.
CreateProductBegin(w, has_title) ==
    /\ ~InFlight(w)
    /\ CanCreate(NextProductId(status))
    /\ txn' = [txn EXCEPT ![w] =
                  IF has_title
                  THEN [pc |-> "creating", product_id |-> NextProductId(status)]
                  ELSE [pc |-> "bad_request"]]
    /\ analysis' = NoAnalysis
    /\ recs' = NoRecs
    /\ UNCHANGED << status, view_count, events, duration, profiles, clock,
                    probe, runs >>

\* db.session.commit() of create_product (line 330): a draft product and
\* its analytics row (view_count 0 by default)
CreateProductCommit(w) ==
    /\ txn[w].pc = "creating"
    /\ LET id == txn[w].product_id
       IN  /\ status' = [p \in DOMAIN status \cup {id} |->
                            IF p = id THEN "draft" ELSE status[p]]
           /\ view_count' = [p \in DOMAIN view_count \cup {id} |->
                                IF p = id THEN 0 ELSE view_count[p]]
    /\ txn' = [txn EXCEPT ![w] = [pc |-> "created"]]
    /\ analysis' = NoAnalysis
    /\ recs' = NoRecs
    /\ UNCHANGED << events, duration, profiles, clock, probe, runs >>

\* time passes
Tick ==
    /\ clock < MaxClock
    /\ clock' = clock + 1
    /\ UNCHANGED << status, view_count, events, duration, profiles,
                    analysis, recs, probe, txn, runs >>

(***************************************************************************)
(* Calls of the two public operations                                      *)
(***************************************************************************)
\* analyze_behavior_pattern(session) on the session as committed, with the
\* store failing or not.  `repeated` says that the call before it was on the
\* same session and that nothing has been committed since (a commit clears
\* `analysis`; the steps of requests in flight and the clock do not);
\* `prev` is then what that call returned.
AnalyzeBehavior(s, failEvents, failInterests) ==
    LET out == analyze_behavior_pattern(SessionOf(events, duration, s),
                                        failEvents, failInterests, clock)
        again == analysis.called /\ analysis.session_id = s
    IN  /\ analysis' = [called |-> TRUE, session_id |-> s,
                        failEvents |-> failEvents,
                        failInterests |-> failInterests,
                        out |-> out,
                        repeated |-> again,
                        prev |-> IF again THEN analysis.out ELSE out]
        /\ UNCHANGED << status, view_count, events, duration, profiles,
                        clock, recs, probe, txn, runs >>

\* get_personalized_recommendations(session, current_product_id, limit)
GetRecommendations(s, current_product_id, limit, failViewed, failPopular) ==
    /\ \E r \in get_personalized_recommendations(
                    s, current_product_id, limit, failViewed, failPopular) :
         recs' = [called |-> TRUE, session_id |-> s,
                  current_product_id |-> current_product_id,
                  limit |-> limit,
                  failViewed |-> failViewed, failPopular |-> failPopular,
                  raised |-> r.raised,
                  ids |-> IF r.raised THEN << >> ELSE r.value]
    /\ UNCHANGED << status, view_count, events, duration, profiles,
                    clock, analysis, probe, txn, runs >>

(***************************************************************************)
(* Inputs                                                                  *)
(***************************************************************************)
\* the session whose requests are enumerated under Spec and SpecAnalysis
\* (the other one stays without events)
Visitor == "s1"
\* the products requests name
Viewable == {1, 2}
\* total_time of a session_end payload: absent keys give 0
TotalTimes == { IntDuration(0), IntDuration(-300), IntDuration(45), NullDuration }

TrackRequests ==
    { [event_type |-> "video_play", product_id |-> NoProduct,
       total_time |-> IntDuration(0)],
      [event_type |-> "image_click", product_id |-> 1,
       total_time |-> IntDuration(0)],
      [event_type |-> NullType, product_id |-> NoProduct,
       total_time |-> IntDuration(0)] }
    \cup { [event_type |-> "session_end", product_id |-> NoProduct,
            total_time |-> t] : t \in TotalTimes }

(***************************************************************************)
(* Spec: the event-recording requests of one session, handled by two       *)
(* workers                                                                 *)
(***************************************************************************)
\* the requests of the race: the trigger counts events of any type
RaceRequests == { r \in TrackRequests : r.event_type \in {"video_play", NullType} }

Next ==
    \/ \E w \in Workers : track_session(w, Visitor, MaxEvents)
    \/ \E w \in Workers, req \in RaceRequests : TrackEventBegin(w, req)
    \/ \E w \in Workers : TrackEventCommit(w)
    \/ \E w \in Workers, p \in Viewable : GetProductBegin(w, p)
    \/ \E w \in Workers : GetProductCommit(w)

Spec == Init /\ [][Next]_vars

(***************************************************************************)
(* SpecSerial: the same requests, one at a time: a request begins only     *)
(* when no other is in flight                                              *)
(***************************************************************************)
NextSerial ==
    \/ /\ \A v \in Workers : ~InFlight(v)
       /\ \E w \in Workers : track_session(w, Visitor, MaxSerial)
    \/ \E w \in Workers, req \in RaceRequests : TrackEventBegin(w, req)
    \/ \E w \in Workers : TrackEventCommit(w)
    \/ \E w \in Workers, p \in Viewable : GetProductBegin(w, p)
    \/ \E w \in Workers : GetProductCommit(w)

SpecSerial == Init /\ [][NextSerial]_vars

(***************************************************************************)
(* SpecAnalysis: analyses of a session between the steps of its requests,  *)
(* the store answering                                                     *)
(***************************************************************************)
\* the requests the flush accepts, a negative total_time left out
AnalysisRequests ==
    { r \in TrackRequests :
        r.event_type # NullType /\ r.total_time # IntDuration(-300) }

NextAnalysis ==
    \/ \E w \in Workers : track_session(w, Visitor, MaxAnalysed)
    \/ \E w \in Workers, req \in AnalysisRequests : TrackEventBegin(w, req)
    \/ \E w \in Workers : TrackEventCommit(w)
    \/ \E w \in Workers, p \in Viewable : GetProductBegin(w, p)
    \/ \E w \in Workers : GetProductCommit(w)
    \/ \E s \in Sessions : AnalyzeBehavior(s, FALSE, FALSE)

SpecAnalysis == Init /\ [][NextAnalysis]_vars

(***************************************************************************)
(* SpecAnalysisFault: analyses of a session whose reads may fail           *)
(***************************************************************************)
\* the requests: a plain event, and a session_end with and without a
\* total_time
FaultRequests ==
    { r \in TrackRequests :
        \/ r.event_type = "video_play"
        \/ /\ r.event_type = "session_end"
           /\ r.total_time \in {IntDuration(45), NullDuration} }

NextAnalysisFault ==
    \/ \E w \in Workers : track_session(w, Visitor, MaxAnalysed)
    \/ \E w \in Workers, req \in FaultRequests : TrackEventBegin(w, req)
    \/ \E w \in Workers : TrackEventCommit(w)
    \/ \E w \in Workers, p \in Viewable : GetProductBegin(w, p)
    \/ \E w \in Workers : GetProductCommit(w)
    \/ \E fe \in BOOLEAN, fi \in BOOLEAN : AnalyzeBehavior(Visitor, fe, fi)

SpecAnalysisFault == Init /\ [][NextAnalysisFault]_vars

(***************************************************************************)
(* SpecRepeat: repeated analyses of a session while time passes and        *)
(* requests of the session are in flight, the store answering              *)
(***************************************************************************)
NextRepeat ==
    \/ \E w \in Workers : track_session(w, Visitor, MaxRepeated)
    \/ \E w \in Workers, req \in FaultRequests : TrackEventBegin(w, req)
    \/ \E w \in Workers : TrackEventCommit(w)
    \/ \E w \in Workers, p \in Viewable : GetProductBegin(w, p)
    \/ \E w \in Workers : GetProductCommit(w)
    \/ Tick
    \/ AnalyzeBehavior(Visitor, FALSE, FALSE)

SpecRepeat == Init /\ [][NextRepeat]_vars

(***************************************************************************)
(* SpecRace: two workers handling event-tracking requests of one session   *)
(***************************************************************************)
NextRace ==
    \/ \E w \in Workers : track_session(w, Visitor, MaxRaced)
    \/ \E w \in Workers, req \in RaceRequests : TrackEventBegin(w, req)
    \/ \E w \in Workers : TrackEventCommit(w)

SpecRace == Init /\ [][NextRace]_vars

(***************************************************************************)
(* SpecOverwrite: two workers, the plays of a session and its one          *)
(* session_end, up to two requests that both refresh the stored profile    *)
(***************************************************************************)
\* a session_end of session s is stored or flushed
SessionEnded(s) ==
    \/ \E i \in 1..Len(events) :
           events[i].session_id = s /\ events[i].event_type = "session_end"
    \/ \E w \in Workers :
           /\ txn[w].pc = "flushed"
           /\ txn[w].session_id = s
           /\ txn[w].event.event_type = "session_end"

\* the requests: a plain event, and the session_end the page sends once
OverwriteRequests ==
    { r \in TrackRequests :
        \/ r.event_type = "video_play"
        \/ r.event_type = "session_end" /\ r.total_time = IntDuration(45) }

NextOverwrite ==
    \/ \E w \in Workers : track_session(w, Visitor, MaxOverwritten)
    \/ \E w \in Workers, req \in OverwriteRequests :
         /\ req.event_type = "session_end" => ~SessionEnded(Visitor)
         /\ TrackEventBegin(w, req)
    \/ \E w \in Workers : TrackEventCommit(w)

SpecOverwrite == Init /\ [][NextOverwrite]_vars

(***************************************************************************)
(* SpecCommit: two workers, requests the flush accepts and requests it     *)
(* refuses, up to two requests that both refresh the stored profile        *)
(***************************************************************************)
\* the requests: of a plain event, of an event naming a product that does
\* not exist (refused), without event_type (refused), and the session_end
\* the page sends once
CommitRequests ==
    { [event_type |-> "video_play", product_id |-> NoProduct,
       total_time |-> IntDuration(0)],
      [event_type |-> "image_click", product_id |-> NumProducts + 1,
       total_time |-> IntDuration(0)],
      [event_type |-> NullType, product_id |-> NoProduct,
       total_time |-> IntDuration(0)],
      [event_type |-> "session_end", product_id |-> NoProduct,
       total_time |-> IntDuration(45)] }

NextCommit ==
    \/ \E w \in Workers : track_session(w, Visitor, MaxCommitted)
    \/ \E w \in Workers, req \in CommitRequests :
         /\ req.event_type = "session_end" => ~SessionEnded(Visitor)
         /\ TrackEventBegin(w, req)
    \/ \E w \in Workers : TrackEventCommit(w)

SpecCommit == Init /\ [][NextCommit]_vars

(***************************************************************************)
(* SpecRec: recommendation requests of one session over the views of two,  *)
(* the lookups succeeding                                                  *)
(***************************************************************************)
NextRec ==
    \/ \E w \in Workers, s \in Sessions : track_session(w, s, MaxViews)
    \/ \E w \in Workers, p \in Viewable : GetProductBegin(w, p)
    \/ \E w \in Workers : GetProductCommit(w)
    \/ \E cur \in {NoProduct} \cup Viewable, limit \in 0..MaxLimit :
         GetRecommendations(Visitor, cur, limit, FALSE, FALSE)

SpecRec == Init /\ [][NextRec]_vars

(***************************************************************************)
(* SpecFault: recommendation requests whose lookups may fail               *)
(***************************************************************************)
NextFault ==
    \/ \E w \in Workers, s \in Sessions : track_session(w, s, MaxFaultViews)
    \/ \E w \in Workers, p \in Viewable : GetProductBegin(w, p)
    \/ \E w \in Workers : GetProductCommit(w)
    \/ \E s \in Sessions, cur \in {NoProduct} \cup Viewable,
          limit \in 0..MaxLimit, fv \in BOOLEAN, fp \in BOOLEAN :
         GetRecommendations(s, cur, limit, fv, fp)

SpecFault == Init /\ [][NextFault]_vars

(***************************************************************************)
(* SpecCatalog: recommendation requests while the catalog changes          *)
(***************************************************************************)
\* the status of a request body: two of the three accepted, and one that is
\* not
StatusInputs == {"published", "unpublished", "archived"}

NextCatalog ==
    \/ \E w \in Workers, p \in Viewable, st \in StatusInputs :
         UpdateProductStatusBegin(w, p, st)
    \/ \E w \in Workers : UpdateProductStatusCommit(w)
    \/ \E w \in Workers, has_title \in BOOLEAN : CreateProductBegin(w, has_title)
    \/ \E w \in Workers : CreateProductCommit(w)
    \/ \E w \in Workers : track_session(w, Visitor, MaxCatalogViews)
    \/ \E w \in Workers, p \in Viewable : GetProductBegin(w, p)
    \/ \E w \in Workers : GetProductCommit(w)
    \/ \E limit \in 0..MaxLimit :
         GetRecommendations(Visitor, NoProduct, limit, FALSE, FALSE)

SpecCatalog == Init /\ [][NextCatalog]_vars

(***************************************************************************)
(* SpecScore: scoring and classification of sampled feature vectors        *)
(***************************************************************************)
\* sampled values of each scored feature: around the thresholds of the
\* classifier, at the ceiling and above it
FeatureSamples ==
    [session_duration |->
         {-300, 0, BounceUnder - 1, BounceUnder,
          max_values.session_duration,
          max_values.session_duration + Overshoot},
     total_events |->
         {0, 6, max_values.total_events,
          max_values.total_events + Overshoot, 40},
     product_views |->
         {0, max_values.product_views, max_values.product_views + Overshoot},
     image_clicks |->
         {0, max_values.image_clicks, max_values.image_clicks + Overshoot},
     video_plays |->
         {0, VideoPlaysOver, VideoPlaysOver + 1, max_values.video_plays,
          max_values.video_plays + Overshoot},
     unique_products |->
         {0, UniqueProductsOver, UniqueProductsOver + 1,
          max_values.unique_products,
          max_values.unique_products + Overshoot}]

\* what extract_session_features can return: counts of one event list
IsFeatureVector(f) ==
    /\ f.product_views + f.image_clicks + f.video_plays <= f.total_events
    /\ f.unique_products <= f.total_events
    \* only a session_end event, itself counted, sets a duration
    /\ f.session_duration # 0 => f.total_events > 0

FeatureVectors ==
    { f \in [session_duration : FeatureSamples.session_duration,
             total_events : FeatureSamples.total_events,
             product_views : FeatureSamples.product_views,
             image_clicks : FeatureSamples.image_clicks,
             video_plays : FeatureSamples.video_plays,
             unique_products : FeatureSamples.unique_products] :
        IsFeatureVector(f) }

\* scores handed to the classifier, around its two thresholds
ScoreSamples ==
    {-2000, 0, ModerateEngagement - 1, ModerateEngagement,
     HighEngagement - 1, HighEngagement, 10000}

InitScore ==
    /\ StoreInit
    /\ \E f \in FeatureVectors, s \in ScoreSamples :
         probe = [stage |-> "input", features |-> f, score |-> s]

\* score = self._calculate_engagement_score(features)
CalculateScore ==
    /\ probe.stage = "input"
    /\ probe' = [stage |-> "scored", features |-> probe.features,
                 score |-> _calculate_engagement_score(probe.features)]
    /\ UNCHANGED << status, view_count, events, duration, profiles, clock,
                    analysis, recs, txn, runs >>

\* pattern = self._classify_behavior_pattern(features, score)
ClassifyPattern ==
    /\ probe.stage \in {"input", "scored"}
    /\ probe' = [stage |-> "classified", features |-> probe.features,
                 score |-> probe.score,
                 pattern |-> _classify_behavior_pattern(probe.features,
                                                        probe.score)]
    /\ UNCHANGED << status, view_count, events, duration, profiles, clock,
                    analysis, recs, txn, runs >>

\* the score of the vector with one feature raised, beside the score of
\* the vector itself
RaiseFeature(k, v) ==
    /\ probe.stage = "scored"
    /\ v > probe.features[k]
    /\ LET raised == [probe.features EXCEPT ![k] = v]
       IN  /\ IsFeatureVector(raised)
           /\ probe' = [stage |-> "raised", features |-> raised,
                        score |-> _calculate_engagement_score(raised),
                        feature |-> k, from |-> probe.features[k],
                        base |-> probe.score]
    /\ UNCHANGED << status, view_count, events, duration, profiles, clock,
                    analysis, recs, txn, runs >>

NextScore ==
    \/ CalculateScore
    \/ ClassifyPattern
    \/ \E k \in ScoredFeatures : \E v \in FeatureSamples[k] : RaiseFeature(k, v)

SpecScore == InitScore /\ [][NextScore]_vars

(***************************************************************************)
(* Claims about scoring and classification (SpecScore)                     *)
(***************************************************************************)
\* C5 (as claimed): every score _calculate_engagement_score returns lies
\* in [0, 100], i.e. in 0..10000 hundredths.
C5_ScoreInRange ==
    probe.stage = "scored" => (0 <= probe.score /\ probe.score <= 10000)

\* the decision tree as documented: an ordered list of (condition, label),
\* the first condition that holds giving the label
DocumentedRules(f, score) ==
    << [when |-> score >= 8000, label |-> "high_engagement"],
       [when |-> 5000 <= score /\ score < 8000 /\ f.video_plays > 2,
        label |-> "video_interested"],
       [when |-> 5000 <= score /\ score < 8000 /\ f.unique_products > 5,
        label |-> "browsing_intensive"],
       [when |-> 5000 <= score /\ score < 8000,
        label |-> "moderate_engagement"],
       [when |-> score < 5000 /\ f.session_duration < 30, label |-> "bounce"],
       [when |-> score < 5000, label |-> "low_engagement"] >>

FirstMatch(rules) ==
    LET i == CHOOSE j \in 1..Len(rules) :
                 rules[j].when /\ \A h \in 1..(j - 1) : ~rules[h].when
    IN  rules[i].label

\* C6: for every (features, score) pair the classifier returns the label
\* of the documented first-match-wins decision tree.
C6_DecisionTree ==
    probe.stage = "classified" =>
        probe.pattern = FirstMatch(DocumentedRules(probe.features, probe.score))

\* C6 witness: a vector classified by the third rule, at score 50.0 exactly.
C6_Witness ==
    /\ probe.stage = "classified"
    /\ probe.score = 5000
    /\ probe.features.video_plays = 2
    /\ probe.features.unique_products = 6
    /\ probe.pattern = "browsing_intensive"

\* C7: raising one scored feature never lowers the score, and raising a
\* feature that is already at or above its ceiling leaves the score as it is.
C7_Monotonic ==
    probe.stage = "raised" =>
        /\ probe.score >= probe.base
        /\ probe.from >= max_values[probe.feature] => probe.score = probe.base

\* C7 witness: a feature raised from its ceiling, and another raised from
\* below it with a higher score for it.
C7_Witness ==
    /\ probe.stage = "raised"
    /\ probe.feature = "video_plays"
    /\ probe.from = max_values.video_plays
    /\ probe.features.video_plays > max_values.video_plays
    /\ probe.features.session_duration < 0

(***************************************************************************)
(* Claims about analyze_behavior_pattern (SpecAnalysis, SpecAnalysisFault, *)
(* SpecRepeat)                                                             *)
(***************************************************************************)
\* the session the last analysis was called on, as it is now (nothing has
\* been committed since: a commit clears `analysis`)
AnalysedSession == SessionOf(events, duration, analysis.session_id)

\* the default analysis as documented
DocumentedDefault ==
    [behavior_pattern |-> "unknown", engagement_score |-> 0,
     interest_categories |-> [viewed_products |-> << >>, total_views |-> 0]]

\* C4: whenever feature extraction fails entirely (the event list is
\* unavailable, or the division fails) the analysis returned is exactly the
\* default: pattern 'unknown', score 0.0, no interests -- not the score-50
\* result of a scoring failure.
C4_DefaultOnNoFeatures ==
    (/\ analysis.called
     /\ extract_session_features(AnalysedSession, analysis.failEvents)
            = EmptyFeatures)
    => analysis.out = DocumentedDefault

\* C4 witness: an analysis of a session with events whose event list could
\* not be read.
C4_Witness ==
    /\ analysis.called
    /\ analysis.failEvents
    /\ Len(AnalysedSession.events) > 0
    /\ analysis.out.behavior_pattern = "unknown"
    /\ analysis.out.engagement_score = 0

SameButTimestamp(a, b) ==
    /\ a.behavior_pattern = b.behavior_pattern
    /\ a.engagement_score = b.engagement_score
    /\ a.interest_categories.viewed_products
           = b.interest_categories.viewed_products
    /\ a.interest_categories.total_views = b.interest_categories.total_views
    /\ ("features" \in DOMAIN a) = ("features" \in DOMAIN b)
    /\ "features" \in DOMAIN a => a.features = b.features
    /\ ("last_updated" \in DOMAIN a.interest_categories)
           = ("last_updated" \in DOMAIN b.interest_categories)
    /\ "last_updated" \in DOMAIN a.interest_categories =>
           a.interest_categories.last_updated
               >= b.interest_categories.last_updated

C9_NoEvents ==
    (/\ analysis.called
     /\ ~analysis.failEvents
     /\ AnalysedSession.events = << >>)
    => /\ "features" \in DOMAIN analysis.out
       /\ analysis.out.features # EmptyFeatures
       /\ analysis.out.features.total_events = 0
       /\ analysis.out.features.avg_time_per_event.num = 0

\* C9 witness: the analysis of a session that has recorded nothing, while
\* the other session has.
C9_Witness ==
    /\ analysis.called
    /\ ~analysis.failEvents
    /\ AnalysedSession.events = << >>
    /\ Len(events) > 0
    /\ analysis.out.features.total_events = 0

RECURSIVE Distinct(_)
\* the members of a list, each once, in order of first occurrence
Distinct(ids) ==
    IF ids = << >> THEN << >>
    ELSE LET before == Distinct(SubSeq(ids, 1, Len(ids) - 1))
             last == ids[Len(ids)]
         IN  IF \E i \in 1..Len(before) : before[i] = last
             THEN before ELSE Append(before, last)

\* the session's product_view events
ProductViews(session) ==
    SelectSeq(session.events, LAMBDA e : e.event_type = "product_view")

\* C14 (as claimed): the interests of an analysis list the first (at most
\* 10) distinct product ids of the session's product_view events in order of
\* first view, and total_views is the number of those events.
C14_DistinctInOrder ==
    (/\ analysis.called
     /\ ~analysis.failEvents
     /\ ~analysis.failInterests
     /\ "features" \in DOMAIN analysis.out)
    => LET views == ProductViews(AnalysedSession)
           ids == [i \in 1..Len(views) |-> views[i].product_id]
           interests == analysis.out.interest_categories
       IN  /\ interests.viewed_products
                  = Prefix(Distinct(DropNull(ids)), 10)
           /\ interests.total_views = Len(views)

\* C15 (as claimed): a session with a NULL duration and at least one event
\* is analysed as one of duration 0: session_duration = 0,
\* avg_time_per_event = 0, and a rule-based pattern, not 'unknown'.
C15_NullDurationIsZero ==
    (/\ analysis.called
     /\ ~analysis.failEvents
     /\ AnalysedSession.duration.isNull
     /\ Len(AnalysedSession.events) > 0)
    => /\ "features" \in DOMAIN analysis.out
       /\ analysis.out.features # EmptyFeatures
       /\ analysis.out.features.session_duration = 0
       /\ analysis.out.features.avg_time_per_event.num = 0
       /\ analysis.out.behavior_pattern # "unknown"

\* the second half of C15, which holds: a step that changes a session's
\* duration appends a session_end event of that session
OnlySessionEndSetsDuration ==
    [][\A s \in Sessions :
         duration'[s] # duration[s] =>
             \E w \in Workers :
                 /\ txn[w].pc = "flushed"
                 /\ txn[w].session_id = s
                 /\ txn[w].event.event_type = "session_end"
                 /\ events' = InsertById(events, txn[w].event)]_vars

(***************************************************************************)
(* Claims about get_personalized_recommendations (SpecRec, SpecFault,      *)
(* SpecCatalog)                                                            *)
(***************************************************************************)
\* products the requesting session has viewed (product_view events)
ViewedBy(session_id) ==
    { events[i].product_id : i \in
        { j \in 1..Len(events) : /\ events[j].session_id = session_id
                                 /\ events[j].event_type = "product_view" } }
    \ {NoProduct}

\* C1 (as claimed): no returned id is a product the session has viewed, nor
\* the current product.
C1_NoExcluded ==
    recs.called =>
        \A i \in 1..Len(recs.ids) :
            /\ recs.ids[i] \notin ViewedBy(recs.session_id)
            /\ recs.ids[i] # recs.current_product_id

\* C2: the result is a duplicate-free sequence of at most `limit` ids, and
\* is empty when limit = 0.
C2_AtMostLimit ==
    recs.called =>
        /\ Len(recs.ids) <= recs.limit
        /\ \A i, j \in 1..Len(recs.ids) : recs.ids[i] = recs.ids[j] => i = j
        /\ recs.limit = 0 => recs.ids = << >>

\* C2 witness: a result cut to its limit of 1 while two products are
\* published.
C2_Witness ==
    /\ recs.called
    /\ recs.limit = 1
    /\ Len(recs.ids) = 1
    /\ Cardinality(PublishedAnalytics) >= 2

\* the popularity fallback as documented: the `limit` most viewed published
\* products, the most viewed first
IsTopPublished(ids, limit) ==
    LET published == { p \in DOMAIN status : status[p] = "published" }
        listed == { ids[i] : i \in 1..Len(ids) }
    IN  /\ listed \subseteq published
        /\ \A i, j \in 1..Len(ids) : ids[i] = ids[j] => i = j
        /\ Len(ids) = IF Cardinality(published) < limit
                      THEN Cardinality(published) ELSE limit
        /\ \A i, j \in 1..Len(ids) :
               i < j => view_count[ids[i]] >= view_count[ids[j]]
        /\ \A p \in published \ listed : \A i \in 1..Len(ids) :
               view_count[ids[i]] >= view_count[p]

\* the popularity fallback of the last call, as documented: the top
\* published products when the popularity lookup answers, the empty list
\* when it fails
DegradedToPopular ==
    IF recs.failPopular THEN recs.ids = << >>
    ELSE IsTopPublished(recs.ids, recs.limit)

\* the Tier-1 lookup of the last call ran (the history was read and is not
\* empty) and failed: evaluating db.func.count raises NameError
TierOneFailed ==
    /\ ~recs.failViewed
    /\ ViewedBy(recs.session_id) # {}
    /\ ~DbIsBound

\* C3: the call never raises; when the viewed-history lookup fails, and
\* when the Tier-1 lookup fails, the result is the popularity fallback; when
\* the popularity lookup fails it is the empty list; without history and
\* with an empty catalog it is empty.
C3_NeverRaises ==
    recs.called =>
        /\ ~recs.raised
        /\ recs.failViewed => DegradedToPopular
        /\ TierOneFailed => DegradedToPopular
        /\ recs.failPopular => recs.ids = << >>
        /\ (ViewedBy(recs.session_id) = {} /\ DOMAIN status = {}) =>
               recs.ids = << >>

\* C3 witness: the Tier-1 lookup of a session with history failed and the
\* caller got the popularity fallback, the most viewed published product.
C3_Witness ==
    /\ recs.called
    /\ TierOneFailed
    /\ ~recs.failPopular
    /\ ~recs.raised
    /\ recs.limit = 1
    /\ Len(recs.ids) = 1
    /\ \A p \in PublishedAnalytics : view_count[recs.ids[1]] >= view_count[p]

\* product_view events of the sessions, other than `session_id`, that viewed
\* a product `session_id` has viewed
ContributingViews(session_id) ==
    LET viewers == { events[i].session_id : i \in
                       { j \in 1..Len(events) :
                           /\ events[j].event_type = "product_view"
                           /\ events[j].session_id # session_id
                           /\ events[j].product_id \in ViewedBy(session_id) } }
    IN  { i \in 1..Len(events) : /\ events[i].event_type = "product_view"
                                 /\ events[i].session_id \in viewers }

\* the Tier-1 results as documented: the candidates are the non-null,
\* non-excluded products of the contributing views, ranked by the number of
\* those views
DocumentedTierOne(session_id, current_product_id, limit) ==
    LET views == ContributingViews(session_id)
        excluded == ViewedBy(session_id) \cup {current_product_id}
        candidates == { events[i].product_id : i \in views }
                          \ (excluded \cup {NoProduct})
        occurrences == [p \in candidates |->
                          Cardinality({ i \in views : events[i].product_id = p })]
    IN  { Prefix(order, limit) : order \in Ranked(candidates, occurrences) }

\* C12 (as claimed): when the session has a viewed product and another
\* session that viewed one of its products also viewed a non-excluded
\* product, the result is the Tier-1 result: the top-`limit` non-excluded
\* product ids by descending number of views among the contributing sessions.
C12_TierOne ==
    (/\ recs.called
     /\ ~recs.failViewed
     /\ ViewedBy(recs.session_id) # {}
     /\ << >> \notin DocumentedTierOne(recs.session_id,
                                       recs.current_product_id, 1))
    => recs.ids \in DocumentedTierOne(recs.session_id,
                                      recs.current_product_id, recs.limit)

\* Tier 1 gives the request no candidate
TierOneYieldsNone(session_id, current_product_id, limit) ==
    \A r \in _get_similar_products(
                 ViewedBy(session_id),
                 ViewedBy(session_id) \cup
                     (IF current_product_id # NoProduct
                      THEN {current_product_id} ELSE {}),
                 limit) :
        ~r.raised /\ r.value = << >>

\* C13: when the session has no viewed product or Tier 1 yields no
\* candidate (and the popularity lookup itself succeeds), the result is the
\* top-`limit` published products by descending stored view count; no draft
\* product is returned.
C13_PopularityFallback ==
    (/\ recs.called
     /\ ~recs.failViewed
     /\ ~recs.failPopular
     /\ \/ ViewedBy(recs.session_id) = {}
        \/ TierOneYieldsNone(recs.session_id, recs.current_product_id,
                             recs.limit))
    => IsTopPublished(recs.ids, recs.limit)

\* C13 witness: a session with history, Tier 1 giving nothing, after the
\* catalog has changed: a product that began as a draft has been published
\* and is listed, below a product with more views, and a product has been
\* unpublished.
C13_Witness ==
    /\ recs.called
    /\ ~recs.failViewed /\ ~recs.failPopular
    /\ ViewedBy(recs.session_id) # {}
    /\ recs.limit = 2
    /\ Len(recs.ids) = 2
    /\ view_count[recs.ids[1]] > view_count[recs.ids[2]]
    /\ SeedStatus(recs.ids[2]) = "draft"
    /\ \E p \in DOMAIN status : status[p] = "unpublished"

(***************************************************************************)
(* Claims about the trigger of the analysis (SpecSerial)                   *)
(***************************************************************************)
\* the session's stored profile is the analysis of the session as it is
ProfileIsCurrent(s) ==
    LET result == analyze_behavior_pattern(SessionOf(events, duration, s),
                                           FALSE, FALSE, clock)
    IN  \E r \in profiles :
            /\ r.session_id = s
            /\ r.interest_categories = result.interest_categories
            /\ r.engagement_score = result.engagement_score
            /\ r.behavior_pattern = result.behavior_pattern

\* the request of worker w, about to commit, ran alone: no other request is
\* in flight and none has committed since it began
RanAlone(w) ==
    /\ \A v \in Workers \ {w} : ~InFlight(v)
    /\ txn[w].seen = Len(events)

\* C10 (as claimed): every request that runs alone and records the event
\* that brings its session's event count to a multiple of 5 leaves the
\* session's profile refreshed, whichever handler recorded the event.
C10_EveryFifthEvent ==
    [][\A w \in Workers :
         (/\ Recording(w)
          /\ RanAlone(w)
          /\ events' = Append(events, txn[w].event)
          /\ Len(SessionEvents(events', txn[w].session_id)) % AnalysisEvery = 0)
         => ProfileIsCurrent(txn[w].session_id)']_vars

(***************************************************************************)
(* Claims about concurrent event-tracking requests (SpecRace, SpecCommit,  *)
(* SpecOverwrite)                                                          *)
(***************************************************************************)
\* the profile rows of a session
ProfilesOf(rows, s) == { r \in rows : r.session_id = s }

\* row r holds the analysis of request t
HoldsAnalysis(r, t) ==
    /\ r.interest_categories = t.analysis_result.interest_categories
    /\ r.engagement_score = t.analysis_result.engagement_score
    /\ r.behavior_pattern = t.analysis_result.behavior_pattern
    /\ r.last_updated = t.now

\* at most one profile per session (the part of C11 that holds)
AtMostOneProfile ==
    \A s \in Sessions : Cardinality(ProfilesOf(profiles, s)) <= 1

\* C11 (as claimed): after every step, interleaved requests included, a
\* session has at most one profile; the commit of a request that ran the
\* analysis leaves exactly one, holding that analysis (interests, score,
\* pattern and last_updated): a new row when the session had none,
\* otherwise the row the session had (same id), and a row once stored stays.
C11_OneProfilePerSession ==
    [][/\ \A s \in Sessions : Cardinality(ProfilesOf(profiles', s)) <= 1
       /\ \A r \in profiles : \E q \in profiles' :
              q.id = r.id /\ q.session_id = r.session_id
       /\ \A w \in Workers :
              (/\ txn[w].pc = "flushed"
               /\ txn'[w].pc = "committed"
               /\ txn[w].analysed)
              => \E q \in profiles' :
                     /\ ProfilesOf(profiles', txn[w].session_id) = {q}
                     /\ HoldsAnalysis(q, txn[w])
                     /\ \A r \in ProfilesOf(profiles, txn[w].session_id) :
                            q.id = r.id]_vars

\* C16: the trigger acts on the count the request read, which is the
\* session's events committed when the request's transaction opened and its
\* own; it runs the analysis exactly when that count is a multiple of 5,
\* whatever has been committed since, and by the time the request commits
\* the stored count may have moved past the count it read (never below
\* it).  The witness shows both races of the claim.
C16_ReadCountThenAct ==
    [][\A w \in Workers :
         /\ (txn[w].pc # "tracked" /\ txn'[w].pc = "tracked") =>
                txn'[w].snapshot.events = events
         /\ (txn[w].pc = "tracked" /\ txn'[w].pc = "flushed") =>
                /\ txn'[w].session_id = txn[w].session_id
                /\ txn'[w].event_count
                       = Len(SessionEvents(txn[w].snapshot.events,
                                           txn[w].session_id)) + 1
                /\ txn'[w].analysed
                       = (txn'[w].event_count % AnalysisEvery = 0)
                /\ runs'[txn[w].session_id] =
                       IF txn'[w].analysed
                       THEN Append(runs[txn[w].session_id],
                                   txn'[w].event_count)
                       ELSE runs[txn[w].session_id]
         /\ (txn[w].pc = "flushed" /\ txn'[w].pc = "committed") =>
                /\ txn'[w].event_count = txn[w].event_count
                /\ txn'[w].analysed = txn[w].analysed
                /\ txn'[w].stored
                       = Len(SessionEvents(events', txn[w].session_id))
                /\ txn'[w].stored >= txn[w].event_count
                /\ runs' = runs]_vars

\* C16 witness: ten events are stored; two requests observed the count 5
\* (the crossing of 5 ran the analysis twice) and no request observed the
\* count 10 (the crossing of 10 ran no analysis).
C16_Witness ==
    /\ Len(SessionEvents(events, Visitor)) = 2 * AnalysisEvery
    /\ runs[Visitor] = << AnalysisEvery, AnalysisEvery >>

\* the stored row q holds what request t wrote: its whole analysis when the
\* request inserted the row, and when it loaded the row every column it
\* assigned a value other than the loaded one
HoldsWrites(q, t) ==
    IF t.found = {} THEN HoldsAnalysis(q, t)
    ELSE \A f \in t.found :
           /\ t.analysis_result.interest_categories # f.interest_categories
                  => q.interest_categories = t.analysis_result.interest_categories
           /\ t.analysis_result.engagement_score # f.engagement_score
                  => q.engagement_score = t.analysis_result.engagement_score
           /\ t.analysis_result.behavior_pattern # f.behavior_pattern
                  => q.behavior_pattern = t.analysis_result.behavior_pattern
           /\ t.now # f.last_updated => q.last_updated = t.now

\* C17: a request stores everything or nothing.  A step changes the stored
\* events, durations or profiles only as the commit of one request, which
\* stores its event and with it the duration a session_end changed and,
\* exactly when the request ran the analysis, the profile of that analysis;
\* a request that is rolled back (refused at its flush, or its profile
\* insert refused by the unique index) changes nothing.
C17_AllOrNothing ==
    [][/\ \A w \in Workers :
            /\ (txn[w].pc = "flushed" /\ txn'[w].pc = "committed") =>
                   /\ events' = InsertById(events, txn[w].event)
                   /\ duration' =
                          IF /\ txn[w].event.event_type = "session_end"
                             /\ txn[w].total_time # txn[w].loaded_duration
                          THEN [duration EXCEPT
                                    ![txn[w].session_id] = txn[w].total_time]
                          ELSE duration
                   /\ IF txn[w].analysed
                      THEN /\ \E q \in profiles' :
                                  /\ ProfilesOf(profiles', txn[w].session_id) = {q}
                                  /\ HoldsWrites(q, txn[w])
                           /\ \A s \in Sessions \ {txn[w].session_id} :
                                  ProfilesOf(profiles', s) = ProfilesOf(profiles, s)
                      ELSE profiles' = profiles
            /\ (txn[w] # txn'[w] /\ txn'[w].pc = "rolled_back") =>
                   UNCHANGED << events, duration, profiles >>
       /\ << events, duration, profiles >>' # << events, duration, profiles >>
              => \E w \in Workers :
                     txn[w].pc = "flushed" /\ txn'[w].pc = "committed"]_vars

\* C17 witness: of two requests that both ran the analysis at the fifth
\* event, one committed its event and the profile and the other lost the
\* race on the unique index and was rolled back; a session_end has stored
\* its duration; the request of the tenth event has committed its event
\* and overwritten the stored profile with its analysis, and the request of
\* the other worker has been refused at its flush and rolled back.
C17_Witness ==
    /\ \E w \in Workers :
           /\ txn[w].pc = "committed"
           /\ txn[w].analysed
           /\ txn[w].overwrote
           /\ txn[w].event_count = 2 * AnalysisEvery
           /\ txn[w].stored = 2 * AnalysisEvery
    /\ \E w \in Workers :
           txn[w].pc = "rolled_back" /\ txn[w].cause = "flush"
    /\ runs[Visitor] = << AnalysisEvery, AnalysisEvery, 2 * AnalysisEvery >>
    /\ Len(SessionEvents(events, Visitor)) = 2 * AnalysisEvery
    /\ \E q \in profiles :
           /\ ProfilesOf(profiles, Visitor) = {q}
           /\ q.engagement_score
                  = analyze_behavior_pattern(
                        SessionOf(events, duration, Visitor),
                        FALSE, FALSE, clock).engagement_score
    /\ duration[Visitor] = IntDuration(45)

====
